---- MODULE Spec2Model ----
(***************************************************************************)
(* Model of ClustersSearchOCDPO (vortex_udls/clusters_search_udl.cpp):     *)
(* the per-cluster search cache, the ingest handler ocdpo_handler run by   *)
(* several producer threads, the lazily started search worker thread and   *)
(* the destructor.  ClusterSearchWorker and GroupedEmbeddingsForSearch are *)
(* declared in search_worker.hpp, which is not part of the sources at      *)
(* hand; their behaviour is taken from the design document.                *)
(***************************************************************************)
EXTENDS Integers, Sequences, FiniteSets, TLC

\* ---- bounds ----
NumThreads == 2
NumClusters == 2
MaxBatch == 1
MaxInvocations == 2
MaxConfigValue == 1

Threads == 1..NumThreads
Clusters == 1..NumClusters
\* key_string without a parsable cluster ID
NoCluster == 0
\* payload that deserialize_embeddings_and_quries_from_bytes rejects
Malformed == -1
\* nobody holds the mutex
NoThread == 0
\* the search worker as a holder of the shared lock
Worker == NumThreads + 1
\* the options set_config reads from the config object
Options == {"emb_dim", "top_k", "faiss_search_type"}
\* config.contains(o) is false
Missing == <<"missing", 0>>
\* the JSON values of an option: a string, an integer n, or the
\* floating-point number n + 0.5
JsonValues ==
    {<<"string", 0>>} \cup
    {<<k, n>> : k \in {"integer", "float"}, n \in 0..MaxConfigValue}
\* my_id has no initializer
Indeterminate == -1
\* get_service_client_ref().get_my_id()
MyNodeId == 0

VARIABLES
    cluster_search_index,     \* cluster ID -> entry (st, obj, queue)
    readers,                  \* holders of cluster_search_index_map_mutex, shared mode
    writer,                   \* holder of cluster_search_index_map_mutex, exclusive mode
    search_thread_init_mutex, \* holder of search_thread_init_mutex
    worker_thread_started,
    execution_thread_running,
    pc,                       \* position of each producer thread in ocdpo_handler
    key,                      \* cluster ID held by key_string (or none), per thread
    cid,                      \* the local cluster_id, per thread
    nq,                       \* the local nq: queries deserialized from object.blob
    loaded,                   \* the thread went through the cold load and has not yet deserialized
    wpc,                      \* position of the search worker thread
    toScan,                   \* clusters the worker has still to visit in this pass
    inflight,                 \* <<cluster, drained queries>> being searched
    found,                    \* the worker found pending queries in this pass
    dpc,                      \* position of the destructor
    emitted,                  \* per cluster, the queries whose results were emitted, in order
    enq,                      \* per cluster, the number of queries appended so far
    fetchCount,               \* retrieve_grouped_embeddings calls per cluster
    startCount,               \* start_search_worker calls
    invoked,                  \* ocdpo_handler invocations so far
    midSearch,                \* teardown was requested while a search was running
    emb_dim,
    top_k,
    faiss_search_type,
    my_id,
    config,                   \* the config argument of the current get_observer call
    cpc                       \* position of the thread that calls get_observer

vars == <<cluster_search_index, readers, writer, search_thread_init_mutex,
          worker_thread_started, execution_thread_running, pc, key, cid, nq, loaded,
          wpc, toScan, inflight, found, dpc, emitted, enq, fetchCount,
          startCount, invoked, midSearch,
          emb_dim, top_k, faiss_search_type, my_id, config, cpc>>

cacheVars == <<cluster_search_index>>
lockVars == <<readers, writer>>
initVars == <<search_thread_init_mutex, worker_thread_started, startCount>>
workerVars == <<wpc, toScan, inflight, found, emitted>>
inputVars == <<key, cid, nq, loaded, invoked>>
histVars == <<enq, fetchCount, midSearch>>
configVars == <<emb_dim, top_k, faiss_search_type, my_id, config, cpc>>

\* no entry under this key
Absent == [st |-> "absent", obj |-> 0, queue |-> <<>>]

Cached == {c \in Clusters : cluster_search_index[c].st # "absent"}

\* std::make_unique<GroupedEmbeddingsForSearch>(faiss_search_type, emb_dim)
NewEntry(n) == [st |-> "loading", obj |-> n, queue |-> <<>>]

\* an add_queries that puts the batch in front of the pending queries
add_queries_front(e, qs) == [e EXCEPT !.queue = qs \o @]

\* GroupedEmbeddingsForSearch::add_queries: append to the pending queue
add_queries(e, qs) == [e EXCEPT !.queue = @ \o qs]

Range(s) == {s[i] : i \in 1..Len(s)}

\* the nq queries of a batch; a query is named by its number among the
\* queries appended for its cluster
Batch(first, n) == [i \in 1..n |-> first + i - 1]

Init ==
    /\ cluster_search_index = [c \in Clusters |-> Absent]
    /\ readers = {}
    /\ writer = NoThread
    /\ search_thread_init_mutex = NoThread
    /\ worker_thread_started = FALSE
    /\ execution_thread_running = TRUE
    /\ pc = [t \in Threads |-> "idle"]
    /\ key = [t \in Threads |-> NoCluster]
    /\ cid = [t \in Threads |-> NoCluster]
    /\ nq = [t \in Threads |-> 0]
    /\ loaded = [t \in Threads |-> FALSE]
    /\ wpc = "notstarted"
    /\ toScan = {}
    /\ inflight = <<>>
    /\ found = FALSE
    /\ dpc = "alive"
    /\ emitted = [c \in Clusters |-> <<>>]
    /\ enq = [c \in Clusters |-> 0]
    /\ fetchCount = [c \in Clusters |-> 0]
    /\ startCount = 0
    /\ invoked = 0
    /\ midSearch = FALSE
    /\ emb_dim = 64
    /\ top_k = 4
    /\ faiss_search_type = 0
    /\ my_id = Indeterminate
    /\ config = [o \in Options |-> Missing]
    /\ cpc = "idle"

\* ---------------------------------------------------------------------
\* ocdpo_handler, one producer thread t
\* ---------------------------------------------------------------------

\* the inputs of one invocation: the cluster ID in key_string (or none),
\* read by parse_number, and the payload in object.blob (malformed, or a
\* batch of 1..MaxBatch queries), read by the deserializer
KeyInputs == {NoCluster} \cup Clusters
PayloadInputs == {Malformed} \cup (1..MaxBatch)

\* positions of a thread that is not inside ocdpo_handler: "idle" before
\* its first invocation and after an invocation that ran to its end or was
\* left by an exception, else the error that made the invocation return
Returned == {"idle", "MissingClusterKey", "ColdLoadFailure",
             "DeserializationFailure"}

\* the locals of thread t after its step to position p with cluster_id c
\* and nq n: an invocation that returns leaves no locals behind
Locals(t, p, c, n) ==
    /\ pc' = [pc EXCEPT ![t] = p]
    /\ key' = [key EXCEPT ![t] = IF p \in Returned THEN NoCluster ELSE @]
    /\ cid' = [cid EXCEPT ![t] = IF p \in Returned THEN NoCluster ELSE c]
    /\ nq' = [nq EXCEPT ![t] = IF p \in Returned THEN 0 ELSE n]
    /\ loaded' = [loaded EXCEPT ![t] = IF p \in Returned \cup {"add"} THEN FALSE ELSE @]

\* an entry that goes on to the parsing of the key without looking at
\* worker_thread_started
InvokeNoStart(t) ==
    /\ pc[t] \in Returned
    /\ dpc = "alive"
    /\ invoked < MaxInvocations
    /\ \E k \in KeyInputs : key' = [key EXCEPT ![t] = k]
    /\ UNCHANGED <<cid, nq, loaded>>
    /\ invoked' = invoked + 1
    /\ pc' = [pc EXCEPT ![t] = "parse"]
    /\ UNCHANGED <<configVars, cacheVars, lockVars, initVars, execution_thread_running,
                   workerVars, dpc, histVars>>

\* entry into ocdpo_handler and the unguarded check of worker_thread_started
Invoke(t) ==
    /\ pc[t] \in Returned
    /\ dpc = "alive"
    /\ invoked < MaxInvocations
    /\ \E k \in KeyInputs : key' = [key EXCEPT ![t] = k]
    /\ UNCHANGED <<cid, nq, loaded>>
    /\ invoked' = invoked + 1
    /\ pc' = [pc EXCEPT ![t] = IF worker_thread_started THEN "parse" ELSE "init_lock"]
    /\ UNCHANGED <<configVars, cacheVars, lockVars, initVars, execution_thread_running,
                   workerVars, dpc, histVars>>

\* start_search_worker: the thread is created and begins search_and_emit
start_search_worker ==
    /\ wpc' = "check"
    /\ startCount' = startCount + 1

\* a handler that starts the worker without the second, guarded check
InitLockUnguarded(t) ==
    /\ pc[t] = "init_lock"
    /\ search_thread_init_mutex = NoThread
    /\ start_search_worker
    /\ search_thread_init_mutex' = t
    /\ pc' = [pc EXCEPT ![t] = "init_store"]
    /\ UNCHANGED <<configVars, cacheVars, lockVars, worker_thread_started,
                   execution_thread_running, toScan, inflight,
                   found, emitted, inputVars, dpc, histVars>>

\* std::lock_guard<std::mutex> lock(search_thread_init_mutex), the guarded
\* check of worker_thread_started and, if it is still false, the start
InitLock(t) ==
    /\ pc[t] = "init_lock"
    /\ search_thread_init_mutex = NoThread
    /\ IF ~worker_thread_started
       THEN /\ start_search_worker
            /\ search_thread_init_mutex' = t
            /\ pc' = [pc EXCEPT ![t] = "init_store"]
       ELSE /\ pc' = [pc EXCEPT ![t] = "parse"]
            /\ UNCHANGED <<search_thread_init_mutex, startCount, wpc>>
    /\ UNCHANGED <<configVars, cacheVars, lockVars, worker_thread_started,
                   execution_thread_running, toScan, inflight,
                   found, emitted, inputVars, dpc, histVars>>

\* worker_thread_started.store(true) and the end of the lock_guard's scope
InitStore(t) ==
    /\ pc[t] = "init_store"
    /\ worker_thread_started' = TRUE
    /\ search_thread_init_mutex' = NoThread
    /\ pc' = [pc EXCEPT ![t] = "parse"]
    /\ UNCHANGED <<configVars, cacheVars, lockVars, startCount, execution_thread_running,
                   workerVars, inputVars, dpc, histVars>>

\* a handler that goes on to the cache although no cluster ID was parsed
\* (the uninitialised cluster_id then holds some cluster ID)
ParseKeyNoReturn(t) ==
    /\ pc[t] = "parse"
    /\ pc' = [pc EXCEPT ![t] = "rlock"]
    /\ \E c \in Clusters :
          cid' = [cid EXCEPT ![t] = IF key[t] = NoCluster THEN c ELSE key[t]]
    /\ UNCHANGED <<configVars, cacheVars, lockVars, initVars, execution_thread_running,
                   workerVars, key, nq, loaded, invoked, dpc, histVars>>

\* parse_number(key_string, CLUSTER_KEY_DELIMITER, cluster_id) and the
\* return when no cluster ID was extracted
ParseKey(t) ==
    /\ pc[t] = "parse"
    /\ Locals(t, IF key[t] = NoCluster THEN "MissingClusterKey" ELSE "rlock", key[t], 0)
    /\ UNCHANGED <<configVars, cacheVars, lockVars, initVars, execution_thread_running,
                   workerVars, invoked, dpc, histVars>>

\* std::shared_lock<std::shared_mutex> read_lock(cluster_search_index_map_mutex)
ReadLock(t) ==
    /\ pc[t] = "rlock"
    /\ writer = NoThread
    /\ readers' = readers \cup {t}
    /\ pc' = [pc EXCEPT ![t] = "find"]
    /\ UNCHANGED <<configVars, cacheVars, writer, initVars, execution_thread_running,
                   workerVars, inputVars, dpc, histVars>>

\* cluster_search_index.find(cluster_id); on a hit the block ends and the
\* shared lock is released, on a miss read_lock.unlock()
Find(t) ==
    /\ pc[t] = "find"
    /\ readers' = readers \ {t}
    /\ pc' = [pc EXCEPT ![t] = IF cid[t] \in Cached THEN "deser" ELSE "wlock"]
    /\ UNCHANGED <<configVars, cacheVars, writer, initVars, execution_thread_running,
                   workerVars, inputVars, dpc, histVars>>

\* an acquisition that waits for the exclusive holder only, as a shared
\* acquisition does
WriteLockAmongReaders(t) ==
    /\ pc[t] = "wlock"
    /\ writer = NoThread
    /\ writer' = t
    /\ pc' = [pc EXCEPT ![t] = "insert"]
    /\ UNCHANGED <<configVars, cacheVars, readers, initVars, execution_thread_running,
                   workerVars, inputVars, dpc, histVars>>

\* std::unique_lock<std::shared_mutex> write_lock(cluster_search_index_map_mutex)
WriteLock(t) ==
    /\ pc[t] = "wlock"
    /\ writer = NoThread
    /\ readers = {}
    /\ writer' = t
    /\ pc' = [pc EXCEPT ![t] = "insert"]
    /\ UNCHANGED <<configVars, cacheVars, readers, initVars, execution_thread_running,
                   workerVars, inputVars, dpc, histVars>>

\* cluster_search_index[cluster_id] = std::make_unique<...>(...): the slot
\* is assigned unconditionally; an entry already under the key is destroyed
Insert(t) ==
    /\ pc[t] = "insert"
    /\ cluster_search_index' = [cluster_search_index EXCEPT
           ![cid[t]] = NewEntry(fetchCount[cid[t]] + 1)]
    /\ pc' = [pc EXCEPT ![t] = "fetch"]
    /\ loaded' = [loaded EXCEPT ![t] = TRUE]
    /\ UNCHANGED <<configVars, lockVars, initVars, execution_thread_running,
                   workerVars, key, cid, nq, invoked, dpc, histVars>>

\* a fetch that erases the entry of the cluster when it fails
FetchEraseOnFailure(t) ==
    /\ pc[t] = "fetch"
    /\ \E ok \in BOOLEAN :
          /\ cluster_search_index' = [cluster_search_index EXCEPT
                 ![cid[t]] = IF ok THEN [@ EXCEPT !.st = "ok"] ELSE Absent]
          /\ Locals(t, IF ok THEN "deser" ELSE "ColdLoadFailure", cid[t], 0)
    /\ fetchCount' = [fetchCount EXCEPT ![cid[t]] = @ + 1]
    /\ writer' = NoThread
    /\ UNCHANGED <<configVars, readers, initVars, execution_thread_running,
                   workerVars, invoked, dpc, enq, midSearch>>

\* retrieve_grouped_embeddings, the test for -1 with its return, the second
\* find, and the end of the block that releases the exclusive lock
Fetch(t) ==
    /\ pc[t] = "fetch"
    /\ \E ok \in BOOLEAN :
          /\ cluster_search_index' = [cluster_search_index EXCEPT
                 ![cid[t]].st = IF ok THEN "ok" ELSE "failed"]
          /\ Locals(t, IF ok THEN "deser" ELSE "ColdLoadFailure", cid[t], 0)
    /\ fetchCount' = [fetchCount EXCEPT ![cid[t]] = @ + 1]
    /\ writer' = NoThread
    /\ UNCHANGED <<configVars, readers, initVars, execution_thread_running,
                   workerVars, invoked, dpc, enq, midSearch>>

\* deserialize_embeddings_and_quries_from_bytes inside try/catch
Deserialize(t) ==
    /\ pc[t] = "deser"
    /\ \E p \in PayloadInputs :
          Locals(t, IF p = Malformed THEN "DeserializationFailure" ELSE "add", cid[t], p)
    /\ UNCHANGED <<configVars, cacheVars, lockVars, initVars, execution_thread_running,
                   workerVars, invoked, dpc, histVars>>

\* another thread is about to write the map while t reads it without a lock
MapRace(t) == \E u \in Threads \ {t} : pc[u] = "insert"

\* an enqueue after which the handler returns without notify_one
AddQueriesNoNotify(t) ==
    /\ pc[t] = "add"
    /\ cluster_search_index' = [cluster_search_index EXCEPT
           ![cid[t]] = add_queries(@, Batch(enq[cid[t]] + 1, nq[t]))]
    /\ enq' = [enq EXCEPT ![cid[t]] = @ + nq[t]]
    /\ Locals(t, "idle", cid[t], 0)
    /\ UNCHANGED <<configVars, lockVars, initVars, execution_thread_running,
                   workerVars, invoked, dpc, fetchCount, midSearch>>

\* cluster_search_index.at(cluster_id)->add_queries(nq, data, query_list),
\* executed without holding cluster_search_index_map_mutex.  When the
\* lookup races with an insertion its outcome is not defined: besides the
\* regular outcome the call may fail and the exception leaves the handler.
AddQueries(t) ==
    /\ pc[t] = "add"
    /\ \/ /\ cluster_search_index' = [cluster_search_index EXCEPT
                 ![cid[t]] = add_queries(@, Batch(enq[cid[t]] + 1, nq[t]))]
          /\ enq' = [enq EXCEPT ![cid[t]] = @ + nq[t]]
          /\ Locals(t, "notify", cid[t], 0)
       \/ /\ MapRace(t)
          /\ Locals(t, "idle", cid[t], 0)
          /\ UNCHANGED <<cluster_search_index, enq>>
    /\ UNCHANGED <<configVars, lockVars, initVars, execution_thread_running,
                   workerVars, invoked, dpc, fetchCount, midSearch>>

\* cluster_search_index_cv.notify_one()
Notify(t) ==
    /\ pc[t] = "notify"
    /\ wpc' = IF wpc = "waiting" THEN "woken" ELSE wpc
    /\ Locals(t, "idle", cid[t], 0)
    /\ UNCHANGED <<configVars, cacheVars, lockVars, initVars, execution_thread_running,
                   toScan, inflight, found, emitted, invoked, dpc, histVars>>

ocdpo_handler(t) ==
    \/ Invoke(t)
    \/ InitLock(t)
    \/ InitStore(t)
    \/ ParseKey(t)
    \/ ReadLock(t)
    \/ Find(t)
    \/ WriteLock(t)
    \/ Insert(t)
    \/ Fetch(t)
    \/ Deserialize(t)
    \/ AddQueries(t)
    \/ Notify(t)

\* ---------------------------------------------------------------------
\* ClusterSearchWorker::search_and_emit, the single search worker thread
\* (design document, sections 4.2 and 4.3)
\* ---------------------------------------------------------------------

prodVars == <<pc, key, cid, nq, loaded, invoked>>

\* top of the loop: leave it when shutdown was requested
WCheck ==
    /\ wpc = "check"
    /\ wpc' = IF execution_thread_running THEN "lock" ELSE "exited"
    /\ UNCHANGED <<configVars, cacheVars, lockVars, initVars, execution_thread_running,
                   toScan, inflight, found, emitted, prodVars, dpc, histVars>>

\* shared acquisition of the map lock for one pass over the cache
WLock ==
    /\ wpc = "lock"
    /\ writer = NoThread
    /\ readers' = readers \cup {Worker}
    /\ toScan' = Cached
    /\ found' = FALSE
    /\ wpc' = "scan"
    /\ UNCHANGED <<configVars, cacheVars, writer, initVars, execution_thread_running,
                   inflight, emitted, prodVars, dpc, histVars>>

\* a drain that hands every cluster to the search, its queue empty or not
WDrainAlways ==
    /\ wpc = "scan"
    /\ \E c \in toScan :
          /\ toScan' = toScan \ {c}
          /\ inflight' = <<c, cluster_search_index[c].queue>>
          /\ cluster_search_index' =
                [cluster_search_index EXCEPT ![c].queue = <<>>]
          /\ found' = TRUE
          /\ wpc' = "search"
    /\ UNCHANGED <<configVars, lockVars, initVars, execution_thread_running,
                   emitted, prodVars, dpc, histVars>>

\* drain_and_search, first half: take all pending queries of one cluster;
\* an empty queue runs no search
WDrain ==
    /\ wpc = "scan"
    /\ \E c \in toScan :
          /\ toScan' = toScan \ {c}
          /\ IF cluster_search_index[c].queue = <<>>
             THEN UNCHANGED <<cluster_search_index, inflight, wpc, found>>
             ELSE /\ inflight' = <<c, cluster_search_index[c].queue>>
                  /\ cluster_search_index' =
                        [cluster_search_index EXCEPT ![c].queue = <<>>]
                  /\ found' = TRUE
                  /\ wpc' = "search"
    /\ UNCHANGED <<configVars, lockVars, initVars, execution_thread_running,
                   emitted, prodVars, dpc, histVars>>

\* drain_and_search, second half, and the emission: the batched search
\* returns and one result per drained query is emitted, in drain order
WSearchEmit ==
    /\ wpc = "search"
    /\ emitted' = [emitted EXCEPT ![inflight[1]] = @ \o inflight[2]]
    /\ inflight' = <<>>
    /\ wpc' = "scan"
    /\ UNCHANGED <<configVars, cacheVars, lockVars, initVars, execution_thread_running,
                   toScan, found, prodVars, dpc, histVars>>

\* end of a pass: wait on the condition variable (which releases the map
\* lock) when no cluster had pending work, else release the lock and loop
WEndPass ==
    /\ wpc = "scan"
    /\ toScan = {}
    /\ readers' = readers \ {Worker}
    /\ wpc' = IF found THEN "check" ELSE "waiting"
    /\ found' = FALSE
    /\ UNCHANGED <<configVars, cacheVars, writer, initVars, execution_thread_running,
                   toScan, inflight, emitted, prodVars, dpc, histVars>>

\* return from the wait after a notification: the map lock is reacquired
\* and released, then the loop starts over
WWake ==
    /\ wpc = "woken"
    /\ writer = NoThread
    /\ wpc' = "check"
    /\ UNCHANGED <<configVars, cacheVars, lockVars, initVars, execution_thread_running,
                   toScan, inflight, found, emitted, prodVars, dpc, histVars>>

search_and_emit ==
    \/ WCheck
    \/ WLock
    \/ WDrain
    \/ WSearchEmit
    \/ WEndPass
    \/ WWake

\* ---------------------------------------------------------------------
\* ~ClustersSearchOCDPO
\* ---------------------------------------------------------------------

\* execution_thread_running = false; the object is destroyed when no
\* handler is running on it
DtorFlag ==
    /\ dpc = "alive"
    /\ \A t \in Threads : pc[t] \in Returned
    /\ execution_thread_running' = FALSE
    /\ midSearch' = (wpc = "search")
    /\ dpc' = "flagged"
    /\ UNCHANGED <<configVars, cacheVars, lockVars, initVars, workerVars, prodVars,
                   enq, fetchCount>>

\* cluster_search_index_cv.notify_all()
DtorNotify ==
    /\ dpc = "flagged"
    /\ wpc' = IF wpc = "waiting" THEN "woken" ELSE wpc
    /\ dpc' = "join"
    /\ UNCHANGED <<configVars, cacheVars, lockVars, initVars, execution_thread_running,
                   toScan, inflight, found, emitted, prodVars, histVars>>

\* search_worker_thread.joinable()
joinable == startCount > 0

\* a destructor that does not wait for the worker thread
DtorJoinNoWait ==
    /\ dpc = "join"
    /\ dpc' = "returned"
    /\ UNCHANGED <<configVars, cacheVars, lockVars, initVars, execution_thread_running,
                   workerVars, prodVars, histVars>>

\* if (joinable()) join(): returns when the worker thread has exited
DtorJoin ==
    /\ dpc = "join"
    /\ joinable => wpc = "exited"
    /\ dpc' = "returned"
    /\ UNCHANGED <<configVars, cacheVars, lockVars, initVars, execution_thread_running,
                   workerVars, prodVars, histVars>>

Destructor ==
    \/ DtorFlag
    \/ DtorNotify
    \/ DtorJoin

\* ---------------------------------------------------------------------
\* get_observer and set_config
\* ---------------------------------------------------------------------

\* the state of the object that set_config does not touch
objectVars == <<cluster_search_index, readers, writer, search_thread_init_mutex,
                worker_thread_started, execution_thread_running, pc, key, cid,
                nq, loaded, wpc, toScan, inflight, found, dpc, emitted, enq,
                fetchCount, startCount, invoked, midSearch>>

contains(cfg, o) == cfg[o] # Missing

\* basic_json::get<int> and get<uint32_t> throw type_error on a value that
\* is not a number
Throws(v) == v[1] \notin {"integer", "float"}

\* the conversion of a number that is not negative: an integer converts to
\* itself, a floating-point number is truncated
get(v) == v[2]

\* the options in the order in which set_config reads them
Order == <<"emb_dim", "top_k", "faiss_search_type">>

\* the i-th assignment of the try block is reached and executed: no
\* earlier conversion has thrown, the option is present and converts
Assigned(cfg, i) ==
    /\ \A j \in 1..i : contains(cfg, Order[j]) => ~Throws(cfg[Order[j]])
    /\ contains(cfg, Order[i])

\* the catch block is entered
ConfigParseFailure(cfg) ==
    \E o \in Options : contains(cfg, o) /\ Throws(cfg[o])

\* get_observer is called with a config object
get_observer ==
    /\ cpc = "idle"
    /\ \E cfg \in [Options -> {Missing} \cup JsonValues] : config' = cfg
    /\ cpc' = "set_config"
    /\ UNCHANGED <<objectVars, emb_dim, top_k, faiss_search_type, my_id>>

set_config ==
    /\ cpc = "set_config"
    /\ my_id' = MyNodeId
    /\ emb_dim' = IF Assigned(config, 1) THEN get(config["emb_dim"]) ELSE emb_dim
    /\ top_k' = IF Assigned(config, 2) THEN get(config["top_k"]) ELSE top_k
    /\ faiss_search_type' = IF Assigned(config, 3)
                            THEN get(config["faiss_search_type"])
                            ELSE faiss_search_type
    /\ cpc' = "idle"
    /\ UNCHANGED <<objectVars, config>>

ConfigNext ==
    \/ get_observer
    \/ set_config

\* the configuration of the object on its own
ConfigSpec == Init /\ [][ConfigNext]_vars

\* the object with its default configuration
Next ==
    \/ \E t \in Threads : ocdpo_handler(t)
    \/ search_and_emit
    \/ Destructor

Spec == Init /\ [][Next]_vars

\* ---------------------------------------------------------------------
\* Properties
\* ---------------------------------------------------------------------

\* thread t, inside an invocation, takes a step
Steps(t) == pc[t] \notin Returned /\ pc'[t] # pc[t]

\* the pending queue of every cluster
Queues == [c \in Clusters |-> cluster_search_index[c].queue]

\* the queries of cluster c that are on their way: emitted, being searched
\* or pending, in this order
InSearch(c) == IF inflight # <<>> /\ inflight[1] = c THEN inflight[2] ELSE <<>>
Accounted(c) == emitted[c] \o InSearch(c) \o cluster_search_index[c].queue

Occurrences(seq, x) == Cardinality({i \in DOMAIN seq : seq[i] = x})

\* C1: cold-load-once.  Once the entry of a cluster ID is fully populated,
\* no step constructs an entry for that ID again and no step runs the
\* storage fetch for it again, however many invocations referenced the ID
\* while it was uncached.
ColdLoadOnce ==
    [][\A c \in Clusters :
          cluster_search_index[c].st = "ok" =>
             /\ cluster_search_index'[c].obj = cluster_search_index[c].obj
             /\ fetchCount'[c] = fetchCount[c]]_vars

\* C2: no lost queries.  Every query appended by add_queries is exactly
\* once among the queries emitted, being searched or still pending for its
\* cluster; none is dropped and none appears twice.
NoLostQueries ==
    \A c \in Clusters : \A q \in 1..enq[c] : Occurrences(Accounted(c), q) = 1

\* C3: cold-load failure.  The step by which an invocation is abandoned
\* after a failed storage fetch leaves no entry for its cluster ID in the
\* cache, and a lookup of a cluster ID whose fetch did not succeed is a
\* miss, so the invocation goes on to fetch again.
ColdLoadFailureLeavesNoEntry ==
    [][\A t \in Threads :
          /\ (pc[t] = "fetch" /\ pc'[t] = "ColdLoadFailure") =>
                cluster_search_index'[cid[t]].st = "absent"
          /\ (pc[t] = "find" /\ pc'[t] # "find"
                 /\ cluster_search_index[cid[t]].st # "ok") =>
                pc'[t] = "wlock"]_vars

\* C4: only populated entries are visible.  An entry that a producer has
\* looked up under the shared lock or is about to enqueue into, and every
\* entry the worker scans or searches, has had its storage fetch completed
\* successfully.
OnlyPopulatedVisible ==
    /\ \A t \in Threads :
          (pc[t] \in {"find", "add"} /\ cid[t] \in Cached) =>
             cluster_search_index[cid[t]].st = "ok"
    /\ wpc \in {"scan", "search"} =>
          \A c \in Cached : cluster_search_index[c].st = "ok"

\* C5: start-once.  start_search_worker is executed at most once, it has
\* been executed exactly once whenever worker_thread_started is true, and
\* worker_thread_started never goes back to false.
StartOnce ==
    [][/\ startCount' <= 1
       /\ worker_thread_started' => startCount' = 1
       /\ worker_thread_started => worker_thread_started']_vars

\* two first invocations raced: one started the worker and set the flag
\* while another had already passed the unguarded check
StartOnceWitness ==
    /\ worker_thread_started
    /\ startCount = 1
    /\ \E t \in Threads : pc[t] = "init_lock"

\* C6: graceful shutdown.  When the destructor has returned, the worker
\* thread (if it was ever started) has exited: it is not searching, holds
\* no lock on the map and takes no further step.
GracefulShutdown ==
    dpc = "returned" =>
       /\ wpc \in {"notstarted", "exited"}
       /\ joinable => wpc = "exited"
       /\ inflight = <<>>
       /\ Worker \notin readers

\* teardown was requested in the middle of a search and has returned
GracefulShutdownWitness ==
    /\ dpc = "returned"
    /\ midSearch
    /\ wpc = "exited"
    /\ \E c \in Clusters : emitted[c] # <<>>

\* C7: shutdown liveness.  After the destructor has set the flag and
\* called notify_all, the worker is not blocked in its wait: all handlers
\* have returned by then, so nothing would wake it any more and the join
\* would never return.
NoLostShutdownWakeup ==
    ~(dpc = "join" /\ wpc = "waiting")

IsIncreasing(seq) == \A i, j \in DOMAIN seq : i < j => seq[i] < seq[j]

\* C8: FIFO per cluster.  Queries are numbered per cluster in the order of
\* their add_queries; the queries emitted for a cluster, followed by those
\* being searched and those still pending, are in increasing order, so a
\* batch enqueued earlier is searched and emitted earlier and a drain
\* keeps the enqueue order.
FifoPerCluster ==
    \A c \in Clusters : IsIncreasing(Accounted(c))

\* more queries than one batch holds were emitted for some cluster
FifoPerClusterWitness ==
    \E c \in Clusters : Len(emitted[c]) > MaxBatch

\* C9: missing cluster key.  No step of an invocation whose key holds no
\* cluster ID changes the cache map, an entry or a pending queue, appends
\* a query, wakes the worker from its wait or emits.
MissingKeyNoEffect ==
    [][\A t \in Threads :
          (Steps(t) /\ key[t] = NoCluster) =>
             /\ UNCHANGED <<cluster_search_index, enq, emitted, fetchCount>>
             /\ ~(wpc = "waiting" /\ wpc' = "woken")]_vars

\* an invocation without cluster ID was abandoned while the cache held
\* entries and the worker was waiting for a signal
MissingKeyWitness ==
    /\ \E t \in Threads : pc[t] = "MissingClusterKey"
    /\ Cached # {}
    /\ wpc = "waiting"

\* C10: deserialization failure.  An invocation that is abandoned because
\* its payload is malformed has not put an entry into the cache, also when
\* its cluster ID was not cached when it began, and its last step changes
\* neither the set of cache entries nor a pending queue.
MalformedPayloadNoEffect ==
    [][\A t \in Threads :
          (pc[t] = "deser" /\ pc'[t] = "DeserializationFailure") =>
             /\ ~loaded[t]
             /\ Cached' = Cached
             /\ Queues' = Queues]_vars

\* C11: enqueue-to-emit liveness.  While teardown has not been requested no
\* signal of a producer is lost: the worker is never blocked on the wait
\* condition while a cached cluster holds pending queries and every
\* producer that could still signal has already returned.
NoLostProducerSignal ==
    ~ /\ dpc = "alive"
      /\ wpc = "waiting"
      /\ \E c \in Cached : cluster_search_index[c].queue # <<>>
      /\ \A t \in Threads : pc[t] \in Returned

\* no cached cluster has pending queries
NoPending == \A c \in Clusters : cluster_search_index[c].queue = <<>>

\* C12: idle quiescence.  The worker starts a search only with the pending
\* queries of a cluster whose queue is not empty, and results are emitted
\* only by a running search, so a drain of an empty queue runs no search
\* and emits nothing; a pass that ends without having found pending work
\* leaves the worker blocked on the wait condition, and the worker leaves
\* the wait only when a producer signals or the destructor notifies.
IdleQuiescence ==
    [][/\ (wpc # "search" /\ wpc' = "search") =>
             \E c \in Cached :
                /\ cluster_search_index[c].queue # <<>>
                /\ inflight' = <<c, cluster_search_index[c].queue>>
       /\ (NoPending /\ wpc # "search") =>
             (wpc' # "search" /\ emitted' = emitted)
       /\ (emitted' # emitted) => (wpc = "search" /\ inflight[2] # <<>>)
       /\ (wpc = "scan" /\ wpc' \notin {"scan", "search"}) =>
             wpc' = (IF found THEN "check" ELSE "waiting")
       /\ (wpc = "waiting" /\ wpc' # "waiting") =>
             /\ wpc' = "woken"
             /\ \/ \E t \in Threads : pc[t] = "notify" /\ pc'[t] = "idle"
                \/ dpc = "flagged" /\ dpc' = "join"]_vars

\* the worker is blocked with nothing pending after it has served queries,
\* while shutdown has not been requested
IdleQuiescenceWitness ==
    /\ dpc = "alive"
    /\ wpc = "waiting"
    /\ NoPending
    /\ \E c \in Clusters : emitted[c] # <<>>

\* C13: failure containment.  While teardown has not been requested the
\* shutdown flag stays set and a started worker has not left its loop,
\* whichever invocations have failed; and a valid invocation that follows
\* failed ones is served as usual: no query is pending in, or searched
\* against, the entry of a cluster whose storage fetch failed.
FailureContainment ==
    /\ dpc = "alive" => execution_thread_running
    /\ (dpc = "alive" /\ worker_thread_started) =>
          wpc \notin {"notstarted", "exited"}
    /\ \A c \in Clusters :
          cluster_search_index[c].st = "failed" =>
             /\ cluster_search_index[c].queue = <<>>
             /\ inflight # <<>> => inflight[1] # c

\* C14: config parse failure.  A call of set_config in which the conversion
\* of an option fails leaves emb_dim, top_k and faiss_search_type with the
\* values they had before the call, whichever option caused the failure.
ConfigFailureRetainsAll ==
    [][(cpc = "set_config" /\ cpc' = "idle" /\ ConfigParseFailure(config)) =>
          <<emb_dim', top_k', faiss_search_type'>> =
             <<emb_dim, top_k, faiss_search_type>>]_vars

\* thread t holds cluster_search_index_map_mutex, shared or exclusive
HoldsMapLock(t) == t \in readers \/ writer = t

\* C15: cache-map locking discipline.  A thread that is about to read the
\* map (the find of the lookup, the lookup that precedes add_queries, the
\* worker's scan) holds the map lock, a thread that is about to mutate the
\* map holds it in exclusive mode, and no thread is about to read the map
\* while another thread is about to insert into it.
LockingDiscipline ==
    /\ \A t \in Threads :
          /\ pc[t] \in {"find", "add"} => HoldsMapLock(t)
          /\ pc[t] \in {"insert", "fetch"} => writer = t
          /\ pc[t] = "add" => \A u \in Threads : pc[u] # "insert"
    /\ wpc \in {"scan", "search"} => Worker \in readers

\* thread t is inside the cold-load section: construction of the entry and
\* storage fetch
InColdLoad(t) == pc[t] \in {"insert", "fetch"}

\* C16: cold loads are serialized by the exclusive lock.  At most one
\* thread is inside the cold-load section, for the same or for different
\* cluster IDs, and while a thread is inside it nobody holds the map lock
\* in shared mode, neither a producer's lookup nor the worker's scan.
ColdLoadsSerialized ==
    /\ \A t, u \in Threads : (InColdLoad(t) /\ InColdLoad(u)) => t = u
    /\ \A t \in Threads :
          InColdLoad(t) =>
             /\ writer = t
             /\ readers = {}
             /\ wpc \notin {"scan", "search"}
             /\ \A u \in Threads : pc[u] # "find"

\* a thread is fetching while another thread, with a different cluster ID,
\* and the worker both wait for the map lock
ColdLoadsSerializedWitness ==
    \E t, u \in Threads :
       /\ pc[t] = "fetch"
       /\ pc[u] = "wlock"
       /\ cid[u] # cid[t]
       /\ wpc = "lock"

\* C17: lazy start ordering.  Before the first invocation the worker thread
\* does not exist; an invocation is at the parsing of the cluster ID or
\* beyond it, or has returned with a failure, only when
\* worker_thread_started is true; the flag is true only when the thread has
\* been created; so no query has been enqueued while the worker is not
\* started.
LazyStartOrdering ==
    /\ invoked = 0 =>
          (wpc = "notstarted" /\ startCount = 0 /\ ~worker_thread_started)
    /\ \A t \in Threads :
          pc[t] \notin {"idle", "init_lock", "init_store"} =>
             worker_thread_started
    /\ worker_thread_started => wpc # "notstarted"
    /\ wpc = "notstarted" =>
          \A c \in Clusters :
             enq[c] = 0 /\ cluster_search_index[c].queue = <<>>

\* the first invocation failed on its key, after it had started the worker
LazyStartOrderingWitness ==
    /\ invoked = 1
    /\ \E t \in Threads : pc[t] = "MissingClusterKey"
    /\ worker_thread_started
    /\ wpc # "notstarted"

\* C18: no eviction.  The set of cluster IDs that have an entry in the
\* cache only grows: no step of a handler, of the worker or of the
\* destructor up to the join removes the entry of a cluster ID.
NoEviction == [][Cached \subseteq Cached']_vars

\* every cluster ID has an entry, one of them after a fetch that failed,
\* and the invocations that put them there have returned
NoEvictionWitness ==
    /\ Cached = Clusters
    /\ \E c \in Clusters : cluster_search_index[c].st = "failed"
    /\ \A t \in Threads : pc[t] \in Returned

\* C19: entry stability.  The entry object placed in the cache for a
\* cluster ID stays the object under that ID in every later step: it is
\* not replaced by another object and not destroyed, in particular not
\* while it holds pending queries and not while a producer is between its
\* lookup of the ID and the end of its add_queries.
EntryStability ==
    [][\A c \in Cached :
          /\ c \in Cached'
          /\ cluster_search_index'[c].obj = cluster_search_index[c].obj]_vars

\* the outcomes of an invocation that failed
Failures == {"MissingClusterKey", "ColdLoadFailure", "DeserializationFailure"}

\* C20: enqueue frame.  The enqueue step of an invocation for cluster c
\* with nq queries appends exactly those nq queries, in batch order, to
\* the pending queue of c and changes no other queue; it is followed by
\* exactly one notify_one, which changes no queue; no other step of a
\* handler lengthens a queue or signals the worker; and an invocation that
\* fails does so before its enqueue step, so it appends nothing and does
\* not signal.
EnqueueFrame ==
    [][\A t \in Threads :
          /\ (pc[t] = "add" /\ pc'[t] = "notify") =>
                /\ Queues' = [Queues EXCEPT ![cid[t]] =
                                 @ \o Batch(enq[cid[t]] + 1, nq[t])]
                /\ wpc' = wpc
          /\ (pc[t] = "notify" /\ pc'[t] # "notify") =>
                /\ pc'[t] = "idle"
                /\ Queues' = Queues
                /\ wpc' = (IF wpc = "waiting" THEN "woken" ELSE wpc)
          /\ (Steps(t) /\ \E c \in Clusters : Len(Queues'[c]) > Len(Queues[c])) =>
                (pc[t] = "add" /\ pc'[t] = "notify")
          /\ (Steps(t) /\ wpc = "waiting" /\ wpc' # "waiting") =>
                pc[t] = "notify"
          /\ (Steps(t) /\ pc'[t] \in Failures) =>
                /\ pc[t] \notin {"add", "notify"}
                /\ \A c \in Clusters : Len(Queues'[c]) <= Len(Queues[c])
                /\ wpc' = wpc]_vars

\* a producer has appended its batch and is about to signal, while the
\* queue of another cluster holds the batch of another invocation
EnqueueFrameWitness ==
    \E t \in Threads :
       /\ pc[t] = "notify"
       /\ Queues[cid[t]] # <<>>
       /\ \E c \in Clusters \ {cid[t]} : Queues[c] # <<>>

====
